---- MODULE Spec2Model ----
(***************************************************************************)
(* Model of the API test portal (src/src/App.jsx): the CSV codec, the      *)
(* schema flattener, the endpoint catalog builder, the request binder and  *)
(* executor, and the batch runner with the React state that drives them.   *)
(*                                                                         *)
(* JavaScript strings are sequences of one-character strings, so that the  *)
(* character-level code (parseCSV, escapeCsv, the URL binding) is modelled *)
(* by what it does. JavaScript objects are functions from keys to values.  *)
(***************************************************************************)
EXTENDS Integers, Sequences, FiniteSets, TLC

VARIABLES
    activeTab,        \* useState('setup')                        App.jsx:209
    specInput,        \* the text of the spec textarea            App.jsx:210
    parsedSpec,       \* useState(null)                           App.jsx:211
    error,            \* useState('')                             App.jsx:212
    config,           \* {baseUrl, token, headers}                App.jsx:215
    selectedEndpoint, \* useState(null)                           App.jsx:223
    formData,         \* useState({})                             App.jsx:224
    manualResponse,   \* useState(null)                           App.jsx:225
    loading,          \* useState(false)                          App.jsx:226
    batchFile,        \* useState(null)                           App.jsx:229
    batchData,        \* useState([])                             App.jsx:230
    batchResults,     \* useState([])                             App.jsx:231
    batchProgress,    \* useState(0)                              App.jsx:232
    batchRunning,     \* useState(false)                          App.jsx:233
    readers,          \* FileReader loads started and not yet delivered
    batchRuns,        \* the invocations of runBatchTest, in start order
    manualCalls,      \* the invocations of runManualTest, in start order
    fnArg,            \* input of the pure function applied (SpecCsv, SpecExec)
    fnRes             \* its result

vars == <<activeTab, specInput, parsedSpec, error, config, selectedEndpoint,
          formData, manualResponse, loading, batchFile, batchData,
          batchResults, batchProgress, batchRunning, readers, batchRuns,
          manualCalls, fnArg, fnRes>>

appVars == <<activeTab, specInput, parsedSpec, error, config, selectedEndpoint,
             formData, manualResponse, loading, batchFile, batchData,
             batchResults, batchProgress, batchRunning, readers, batchRuns,
             manualCalls>>

fnVars == <<fnArg, fnRes>>

\* An optional value: undefined/null is None, a present value x is Some(x)
None == [has |-> FALSE]
Some(x) == [has |-> TRUE, v |-> x]

(***************************************************************************)
(* String helpers: the String.prototype methods the code uses              *)
(***************************************************************************)
DQ == "\""
NL == "\n"

UpperAlpha == <<"A", "B", "C", "D", "E", "F", "G", "H", "I", "J", "K", "L", "M",
                "N", "O", "P", "Q", "R", "S", "T", "U", "V", "W", "X", "Y", "Z">>
LowerAlpha == <<"a", "b", "c", "d", "e", "f", "g", "h", "i", "j", "k", "l", "m",
                "n", "o", "p", "q", "r", "s", "t", "u", "v", "w", "x", "y", "z">>

LowerChar(c) ==
    IF \E i \in 1..Len(UpperAlpha) : UpperAlpha[i] = c
    THEN LowerAlpha[CHOOSE i \in 1..Len(UpperAlpha) : UpperAlpha[i] = c]
    ELSE c

UpperChar(c) ==
    IF \E i \in 1..Len(LowerAlpha) : LowerAlpha[i] = c
    THEN UpperAlpha[CHOOSE i \in 1..Len(LowerAlpha) : LowerAlpha[i] = c]
    ELSE c

toLowerCase(s) == [i \in 1..Len(s) |-> LowerChar(s[i])]
toUpperCase(s) == [i \in 1..Len(s) |-> UpperChar(s[i])]

IsWhitespace(c) == c \in {" ", "\n", "\t", "\r"}

RECURSIVE TrimStart(_)
TrimStart(s) ==
    IF s # << >> /\ IsWhitespace(Head(s)) THEN TrimStart(Tail(s)) ELSE s

RECURSIVE TrimEnd(_)
TrimEnd(s) ==
    IF s # << >> /\ IsWhitespace(s[Len(s)])
    THEN TrimEnd(SubSeq(s, 1, Len(s) - 1))
    ELSE s

Trim(s) == TrimEnd(TrimStart(s))

Includes(s, c) == \E i \in 1..Len(s) : s[i] = c

\* text.split('\n'): the pieces between newlines; "" splits to [""]
RECURSIVE SplitFrom(_, _, _)
SplitFrom(text, cur, acc) ==
    IF text = << >> THEN Append(acc, cur)
    ELSE IF Head(text) = NL THEN SplitFrom(Tail(text), << >>, Append(acc, cur))
    ELSE SplitFrom(Tail(text), Append(cur, Head(text)), acc)

SplitLines(text) == SplitFrom(text, << >>, << >>)

\* s.replace(/^"|"$/g, ''): one leading and one trailing quote are removed
StripOuterQuotes(s) ==
    LET a == IF s # << >> /\ Head(s) = DQ THEN Tail(s) ELSE s
    IN  IF a # << >> /\ a[Len(a)] = DQ THEN SubSeq(a, 1, Len(a) - 1) ELSE a

\* s.replace(/""/g, '"'): every non-overlapping pair of quotes becomes one
RECURSIVE UnescapeQuotes(_)
UnescapeQuotes(s) ==
    IF Len(s) >= 2 /\ s[1] = DQ /\ s[2] = DQ
    THEN <<DQ>> \o UnescapeQuotes(SubSeq(s, 3, Len(s)))
    ELSE IF s = << >> THEN << >>
    ELSE <<Head(s)>> \o UnescapeQuotes(Tail(s))

\* s.replace(/"/g, '""')
RECURSIVE DoubleQuotes(_)
DoubleQuotes(s) ==
    IF s = << >> THEN << >>
    ELSE IF Head(s) = DQ THEN <<DQ, DQ>> \o DoubleQuotes(Tail(s))
    ELSE <<Head(s)>> \o DoubleQuotes(Tail(s))

RECURSIVE JoinWith(_, _)
JoinWith(parts, sep) ==
    IF parts = << >> THEN << >>
    ELSE IF Len(parts) = 1 THEN parts[1]
    ELSE parts[1] \o sep \o JoinWith(Tail(parts), sep)

RECURSIVE SelectNonBlank(_)
SelectNonBlank(lines) ==
    IF lines = << >> THEN << >>
    ELSE IF Trim(Head(lines)) # << >>
         THEN <<Head(lines)>> \o SelectNonBlank(Tail(lines))
         ELSE SelectNonBlank(Tail(lines))

(***************************************************************************)
(* CSV codec                                                               *)
(***************************************************************************)
CleanCell(current) == UnescapeQuotes(StripOuterQuotes(Trim(current)))

\* parseLine: a quote toggles inQuote and is not kept; a comma outside
\* quotes ends the cell; every other character is appended to the cell
RECURSIVE ParseLineFrom(_, _, _, _)
ParseLineFrom(line, values, current, inQuote) ==
    IF line = << >> THEN Append(values, CleanCell(current))
    ELSE LET char == Head(line) IN
         IF char = DQ
         THEN ParseLineFrom(Tail(line), values, current, ~inQuote)
         ELSE IF char = "," /\ ~inQuote
         THEN ParseLineFrom(Tail(line), Append(values, CleanCell(current)),
                            << >>, inQuote)
         ELSE ParseLineFrom(Tail(line), values, Append(current, char), inQuote)

ParseLine(line) == ParseLineFrom(line, << >>, << >>, FALSE)

CleanKey(h) == Trim(StripOuterQuotes(h))

\* headers.forEach((h, i) => obj[cleanKey] = values[i] || ''): a later
\* header of the same name overwrites the earlier one
RowObject(headers, values) ==
    LET keys == {CleanKey(headers[i]) : i \in 1..Len(headers)}
        last(k) == CHOOSE i \in 1..Len(headers) :
                       /\ CleanKey(headers[i]) = k
                       /\ \A j \in 1..Len(headers) :
                              CleanKey(headers[j]) = k => j <= i
    IN  [k \in keys |->
            IF last(k) <= Len(values) THEN values[last(k)] ELSE << >>]

parseCSV(text) ==
    LET lines == SelectNonBlank(SplitLines(text))
    IN  IF Len(lines) = 0 THEN << >>
        ELSE LET headers == ParseLine(lines[1])
             IN  [n \in 1..(Len(lines) - 1) |->
                     RowObject(headers, ParseLine(lines[n + 1]))]

\* escapeCsv of a string value
escapeCsv(val) ==
    IF Includes(val, DQ) \/ Includes(val, ",") \/ Includes(val, NL)
    THEN <<DQ>> \o DoubleQuotes(val) \o <<DQ>>
    ELSE val

\* csvContent of downloadBatchResults: headers is Object.keys of the first
\* row, every row is written under these headers
CsvContent(headers, rows) ==
    JoinWith(<<JoinWith(headers, <<",">>)>>
             \o [r \in 1..Len(rows) |->
                    JoinWith([h \in 1..Len(headers) |->
                                 escapeCsv(rows[r][headers[h]])], <<",">>)],
             <<NL>>)

(***************************************************************************)
(* Schema flattener                                                        *)
(*                                                                         *)
(* A schema is [ref, properties, required]: ref is the optional $ref       *)
(* string, properties the optional sequence of [name, type, description]   *)
(* as the document writes them (no key twice), required the optional list  *)
(* of names. definitions is the optional mapping from a definition name    *)
(* to such a schema.                                                       *)
(***************************************************************************)
\* schema.$ref.split('/').pop()
LastSegment(ref) ==
    LET slashes == {i \in 1..Len(ref) : ref[i] = "/"}
    IN  IF slashes = {} THEN ref
        ELSE SubSeq(ref, (CHOOSE i \in slashes : \A j \in slashes : j <= i) + 1,
                    Len(ref))

OrElse(opt, dflt) == IF opt.has THEN opt.v ELSE dflt

InSeq(x, seq) == \E i \in 1..Len(seq) : seq[i] = x

\* An integer-like key: the decimal digits of an array index, written
\* without a leading zero
IsIndexKey(key) ==
    /\ key # << >>
    /\ \A i \in 1..Len(key) : key[i] \in {"0", "1", "2", "3", "4", "5", "6", "7", "8", "9"}
    /\ Len(key) > 1 => key[1] # "0"

RECURSIVE IndexValue(_)
IndexValue(key) ==
    IF key = << >> THEN 0
    ELSE LET digits == <<"0", "1", "2", "3", "4", "5", "6", "7", "8", "9">>
             last == CHOOSE d \in 0..9 : digits[d + 1] = key[Len(key)]
         IN  10 * IndexValue(SubSeq(key, 1, Len(key) - 1)) + last

\* Object.keys(properties) on the object JSON.parse built from the
\* properties as written: the integer-like keys come first, in ascending
\* numeric order, then the other keys in the order they were written
ObjectKeys(properties) ==
    LET index == {i \in 1..Len(properties) : IsIndexKey(properties[i].name)}
        ascending ==
            CHOOSE seq \in [1..Cardinality(index) -> index] :
                \A i, j \in 1..Cardinality(index) :
                    i < j => IndexValue(properties[seq[i]].name)
                                 < IndexValue(properties[seq[j]].name)
    IN  [i \in 1..Cardinality(index) |-> properties[ascending[i]]]
        \o SelectSeq(properties, LAMBDA p : ~IsIndexKey(p.name))

extractFieldsFromSchema(schema, definitions) ==
    IF ~schema.has THEN << >>
    ELSE
      LET s == schema.v
          refName == LastSegment(s.ref.v)
          resolved ==
              IF s.ref.has /\ s.ref.v # << >>
              THEN IF definitions.has /\ refName \in DOMAIN definitions.v
                   THEN [properties |-> OrElse(definitions.v[refName].properties, << >>),
                         required |-> OrElse(definitions.v[refName].required, << >>)]
                   ELSE [properties |-> << >>, required |-> << >>]
              ELSE [properties |-> OrElse(s.properties, << >>),
                    required |-> OrElse(s.required, << >>)]
          keys == ObjectKeys(resolved.properties)
      IN  [i \in 1..Len(keys) |->
              [name |-> keys[i].name,
               type |-> OrElse(keys[i].type, <<"s", "t", "r", "i", "n", "g">>),
               required |-> InSeq(keys[i].name, resolved.required),
               description |-> OrElse(keys[i].description, << >>)]]

(***************************************************************************)
(* Endpoint catalog builder                                                *)
(*                                                                         *)
(* The spec text is [syntaxOk, json]: JSON.parse throws on a text that is  *)
(* not JSON and yields the document otherwise. A document is               *)
(* [info, paths, definitions, schemas]; paths is the optional sequence of  *)
(* [path, item] in key order, item the sequence of [key, details] in key   *)
(* order (keys are unique within an object).                               *)
(***************************************************************************)
JsonParse(text) ==
    IF text.syntaxOk
    THEN [threw |-> FALSE, value |-> text.json.v]
    ELSE [threw |-> TRUE, message |-> "Unexpected token in JSON"]

Verbs == { <<"g", "e", "t">>, <<"p", "o", "s", "t">>, <<"p", "u", "t">>,
           <<"d", "e", "l", "e", "t", "e">>, <<"p", "a", "t", "c", "h">> }

\* A faulty variant: the key is compared without lowering its case
IsVerbKeyCaseSensitive(method) == method \in Verbs

\* ['get', 'post', 'put', 'delete', 'patch'].includes(method.toLowerCase())
IsVerbKey(method) == toLowerCase(method) \in Verbs

EndpointId(method, path) == method \o <<"-">> \o path

MakeEndpoint(json, path, method, details) ==
    [id |-> EndpointId(method, path),
     path |-> path,
     method |-> method,
     summary |-> IF details.summary.has /\ details.summary.v # << >>
                 THEN details.summary.v
                 ELSE IF details.operationId.has /\ details.operationId.v # << >>
                 THEN details.operationId.v
                 ELSE path,
     parameters |-> OrElse(details.parameters, << >>),
     requestBody |-> details.requestBody,
     definitions |-> IF json.definitions.has THEN json.definitions
                     ELSE json.schemas]

RECURSIVE EndpointsOfItem(_, _, _)
EndpointsOfItem(json, path, item) ==
    IF item = << >> THEN << >>
    ELSE (IF IsVerbKey(Head(item).key)
          THEN <<MakeEndpoint(json, path, Head(item).key, Head(item).details)>>
          ELSE << >>)
         \o EndpointsOfItem(json, path, Tail(item))

RECURSIVE EndpointsOfPaths(_, _)
EndpointsOfPaths(json, paths) ==
    IF paths = << >> THEN << >>
    ELSE EndpointsOfItem(json, Head(paths).path, Head(paths).item)
         \o EndpointsOfPaths(json, Tail(paths))

MissingPaths == "Invalid OpenAPI/Swagger Spec: Missing 'paths'"

\* The try block of handleSpecParse: the catalog, or the message thrown
BuildCatalog(text) ==
    LET parsed == JsonParse(text)
    IN  IF parsed.threw THEN [threw |-> TRUE, message |-> parsed.message]
        ELSE IF ~parsed.value.paths.has
        THEN [threw |-> TRUE, message |-> MissingPaths]
        ELSE [threw |-> FALSE,
              parsedSpec |-> [info |-> parsed.value.info,
                              endpoints |-> EndpointsOfPaths(parsed.value,
                                                parsed.value.paths.v)]]

(***************************************************************************)
(* Request binder: executeRequest up to the fetch call                     *)
(*                                                                         *)
(* A value mapping (form data, CSV row) is a function from keys to         *)
(* strings; a parameter is [name, in]; requestBody is the optional         *)
(* [schema], schema being content['application/json'].schema. What the     *)
(* function builds is [threw, url, method, headers, body]; threw says that *)
(* an error left the function before the try block.                        *)
(***************************************************************************)
KValueOf == <<"v", "a", "l", "u", "e", "O", "f">>

\* data[name]: a value mapping is a plain object ({} at lines 59 and 221),
\* so a name it does not hold itself is looked up in Object.prototype. The
\* model knows one inherited member, the function valueOf.
Lookup(data, name) ==
    IF name \in DOMAIN data THEN [type |-> "string", s |-> data[name]]
    ELSE IF name = KValueOf THEN [type |-> "function", s |-> << >>]
    ELSE [type |-> "undefined", s |-> << >>]

\* String(Object.prototype.valueOf)
NativeValueOf ==
    <<"f", "u", "n", "c", "t", "i", "o", "n", " ", "v", "a", "l", "u", "e", "O", "f",
      "(", ")", " ", "{", " ", "[", "n", "a", "t", "i", "v", "e", " ",
      "c", "o", "d", "e", "]", " ", "}">>

\* value is truthy
Truthy(value) ==
    value.type = "function" \/ (value.type = "string" /\ value.s # << >>)

\* The text URLSearchParams.append stores for a truthy value
ToText(value) == IF value.type = "function" THEN NativeValueOf ELSE value.s

StartsWith(s, pat) == Len(pat) <= Len(s) /\ SubSeq(s, 1, Len(pat)) = pat

\* The replacement patterns of String.prototype.replace: $$ is a dollar
\* sign, $& the matched text, $` the text before the match and $' the text
\* after it
RECURSIVE ExpandReplacement(_, _, _, _)
ExpandReplacement(repl, matched, before, after) ==
    IF repl = << >> THEN << >>
    ELSE IF StartsWith(repl, <<"$", "$">>)
    THEN <<"$">>
         \o ExpandReplacement(SubSeq(repl, 3, Len(repl)), matched, before, after)
    ELSE IF StartsWith(repl, <<"$", "&">>)
    THEN matched
         \o ExpandReplacement(SubSeq(repl, 3, Len(repl)), matched, before, after)
    ELSE IF StartsWith(repl, <<"$", "`">>)
    THEN before
         \o ExpandReplacement(SubSeq(repl, 3, Len(repl)), matched, before, after)
    ELSE IF StartsWith(repl, <<"$", "'">>)
    THEN after
         \o ExpandReplacement(SubSeq(repl, 3, Len(repl)), matched, before, after)
    ELSE <<Head(repl)>> \o ExpandReplacement(Tail(repl), matched, before, after)

\* s.replace(pat, repl) with a string pattern: the first occurrence only
ReplaceFirst(s, pat, repl) ==
    LET hits == {i \in 1..(Len(s) - Len(pat) + 1) :
                    SubSeq(s, i, i + Len(pat) - 1) = pat}
    IN  IF hits = {} THEN s
        ELSE LET i == CHOOSE h \in hits : \A g \in hits : h <= g
             IN  SubSeq(s, 1, i - 1)
                 \o ExpandReplacement(repl, pat, SubSeq(s, 1, i - 1),
                                      SubSeq(s, i + Len(pat), Len(s)))
                 \o SubSeq(s, i + Len(pat), Len(s))

\* config.baseUrl.replace(/\/$/, '')
StripTrailingSlash(s) ==
    IF s # << >> /\ s[Len(s)] = "/" THEN SubSeq(s, 1, Len(s) - 1) ELSE s

Placeholder(name) == <<"{">> \o name \o <<"}">>

InPath == <<"p", "a", "t", "h">>
InQuery == <<"q", "u", "e", "r", "y">>

Occurs(s, pat) ==
    \E i \in 1..(Len(s) - Len(pat) + 1) : SubSeq(s, i, i + Len(pat) - 1) = pat

\* url.replace(pat, data[name] || ''): a string is a replacement pattern
\* and a function is called for the match with no receiver, where
\* Object.prototype.valueOf throws a TypeError
ReplaceParam(url, pat, value) ==
    IF value.type = "function"
    THEN [threw |-> Occurs(url, pat), url |-> url]
    ELSE [threw |-> FALSE, url |-> ReplaceFirst(url, pat, value.s)]

\* 1. endpoint.parameters.forEach: each path parameter's placeholder
RECURSIVE BindPath(_, _, _)
BindPath(url, params, data) ==
    IF params = << >> THEN [threw |-> FALSE, url |-> url]
    ELSE IF Head(params).in = InPath
    THEN LET r == ReplaceParam(url, Placeholder(Head(params).name),
                               Lookup(data, Head(params).name))
         IN  IF r.threw THEN r ELSE BindPath(r.url, Tail(params), data)
    ELSE BindPath(url, Tail(params), data)

\* The application/x-www-form-urlencoded serializer of URLSearchParams
UrlSafe == {"a", "b", "c", "d", "e", "f", "g", "h", "i", "j", "k", "l", "m",
            "n", "o", "p", "q", "r", "s", "t", "u", "v", "w", "x", "y", "z",
            "A", "B", "C", "D", "E", "F", "G", "H", "I", "J", "K", "L", "M",
            "N", "O", "P", "Q", "R", "S", "T", "U", "V", "W", "X", "Y", "Z",
            "0", "1", "2", "3", "4", "5", "6", "7", "8", "9",
            "*", "-", ".", "_"}

PercentCode(c) ==
    CASE c = "/" -> <<"%", "2", "F">>
      [] c = "$" -> <<"%", "2", "4">>
      [] c = "&" -> <<"%", "2", "6">>
      [] c = "=" -> <<"%", "3", "D">>
      [] c = "," -> <<"%", "2", "C">>
      [] c = "{" -> <<"%", "7", "B">>
      [] c = "}" -> <<"%", "7", "D">>
      [] c = "(" -> <<"%", "2", "8">>
      [] c = ")" -> <<"%", "2", "9">>
      [] c = "[" -> <<"%", "5", "B">>
      [] c = "]" -> <<"%", "5", "D">>
      [] c = DQ -> <<"%", "2", "2">>
      [] c = NL -> <<"%", "0", "A">>
      [] OTHER -> <<"%", "3", "F">>

RECURSIVE FormEncode(_)
FormEncode(s) ==
    IF s = << >> THEN << >>
    ELSE (IF Head(s) \in UrlSafe THEN <<Head(s)>>
          ELSE IF Head(s) = " " THEN <<"+">>
          ELSE PercentCode(Head(s)))
         \o FormEncode(Tail(s))

\* 2. queryParams.append for each query parameter with a non-empty value
RECURSIVE QueryPairs(_, _)
QueryPairs(params, data) ==
    IF params = << >> THEN << >>
    ELSE (IF Head(params).in = InQuery /\ Truthy(Lookup(data, Head(params).name))
          THEN <<FormEncode(Head(params).name) \o <<"=">>
                 \o FormEncode(ToText(Lookup(data, Head(params).name)))>>
          ELSE << >>)
         \o QueryPairs(Tail(params), data)

QueryString(params, data) == JoinWith(QueryPairs(params, data), <<"&">>)

BodyMethods == { <<"p", "o", "s", "t">>, <<"p", "u", "t">>,
                 <<"p", "a", "t", "c", "h">> }

\* ['post', 'put', 'patch'].includes(endpoint.method) && endpoint.requestBody
HasBody(endpoint) == endpoint.method \in BodyMethods /\ endpoint.requestBody.has

\* endpoint.parameters?.map(p => p.name) || []
ParamNames(endpoint) ==
    {endpoint.parameters[i].name : i \in 1..Len(endpoint.parameters)}

BodyFieldNames(endpoint) ==
    LET fields == extractFieldsFromSchema(endpoint.requestBody.v.schema,
                                          endpoint.definitions)
    IN  {fields[i].name : i \in 1..Len(fields)}

\* A faulty variant: only the names of the path parameters are left out
BodyKeysPathOnly(endpoint, data) ==
    LET pathParams == {endpoint.parameters[i].name :
                          i \in {n \in 1..Len(endpoint.parameters) :
                                    endpoint.parameters[n].in = InPath}}
        bodyFields == BodyFieldNames(endpoint)
    IN  {key \in DOMAIN data :
            key \notin pathParams /\ (bodyFields = {} \/ key \in bodyFields)}

\* 3. the keys of data copied into bodyData
BodyKeys(endpoint, data) ==
    LET pathParams == ParamNames(endpoint)
        bodyFields == BodyFieldNames(endpoint)
    IN  {key \in DOMAIN data :
            key \notin pathParams /\ (bodyFields = {} \/ key \in bodyFields)}

BodyData(endpoint, data) == [key \in BodyKeys(endpoint, data) |-> data[key]]

\* config.headers.reduce: a later entry of the same key wins
RECURSIVE ReduceHeaders(_, _)
ReduceHeaders(acc, headers) ==
    IF headers = << >> THEN acc
    ELSE ReduceHeaders((Head(headers).key :> Head(headers).value) @@ acc,
                       Tail(headers))

RequestHeaders(cfg) ==
    LET merged ==
            ReduceHeaders((<<"C", "o", "n", "t", "e", "n", "t", "-", "T", "y", "p", "e">>
                              :> <<"a", "p", "p", "l", "i", "c", "a", "t", "i", "o", "n",
                                   "/", "j", "s", "o", "n">>),
                          cfg.headers)
    IN  IF cfg.token # << >>
        THEN (<<"A", "u", "t", "h", "o", "r", "i", "z", "a", "t", "i", "o", "n">>
                 :> (<<"B", "e", "a", "r", "e", "r", " ">> \o cfg.token)) @@ merged
        ELSE merged

\* An error thrown by lines 278-332 is thrown outside the try block: the
\* promise executeRequest returns is rejected
Thrown == [threw |-> TRUE]

\* The url and options handed to fetch (lines 278-332), or the error
\* thrown on the way
BuildRequest(endpoint, data, cfg) ==
    LET base == StripTrailingSlash(cfg.baseUrl) \o endpoint.path
        bound == BindPath(base, endpoint.parameters, data)
        query == QueryString(endpoint.parameters, data)
    IN  IF bound.threw
        THEN Thrown
        ELSE [threw |-> FALSE,
              url |-> IF query # << >> THEN bound.url \o <<"?">> \o query
                      ELSE bound.url,
              method |-> toUpperCase(endpoint.method),
              headers |-> RequestHeaders(cfg),
              body |-> IF HasBody(endpoint) THEN Some(BodyData(endpoint, data))
                       ELSE None]

(***************************************************************************)
(* Executor: executeRequest from the fetch call on (lines 334-360)         *)
(*                                                                         *)
(* What the network does with one call is net: the fetch promise rejects   *)
(* ([kind |-> "reject", message]) or resolves to a response                *)
(* ([kind |-> "response", status, body]). A response body is               *)
(* [present, raw, json]: present is FALSE for a null body (204, HEAD),     *)
(* raw is the text, json the optional value JSON.parse gives for raw.      *)
(* The elapsed time is not modelled.                                       *)
(***************************************************************************)
\* res.json(): reads the body, which marks a present body as used, then
\* parses it; the promise rejects when the text is not JSON
ResJson(res) ==
    [threw |-> ~res.body.json.has,
     value |-> res.body.json,
     bodyUsed |-> res.body.present]

\* res.text() after res.json(): rejects with a TypeError when the body
\* stream was already read, resolves to the text otherwise
ResText(res, bodyUsed) ==
    IF bodyUsed
    THEN [threw |-> TRUE, message |-> <<"b", "o", "d", "y", " ", "u", "s", "e", "d">>]
    ELSE [threw |-> FALSE, value |-> [type |-> "string", s |-> res.body.raw]]

\* res.ok
ResOk(status) == 200 <= status /\ status <= 299

Returned(success, status, data, isNetworkError) ==
    [threw |-> FALSE, success |-> success, status |-> status, data |-> data,
     isNetworkError |-> isNetworkError]

\* catch (err): lines 352-360
CatchOutcome(message) ==
    Returned(FALSE, 0, [type |-> "string", s |-> message], TRUE)

\* The try block after fetch has settled, with its catch
Outcome(net) ==
    IF net.kind = "reject" THEN CatchOutcome(net.message)
    ELSE LET parsed == ResJson(net)
         IN  IF ~parsed.threw
             THEN Returned(ResOk(net.status), net.status, parsed.value.v, FALSE)
             ELSE LET text == ResText(net, parsed.bodyUsed)
                  IN  IF text.threw THEN CatchOutcome(text.message)
                      ELSE Returned(ResOk(net.status), net.status, text.value, FALSE)

\* executeRequest(endpoint, data) when the network answers net
executeRequest(endpoint, data, cfg, net) ==
    IF BuildRequest(endpoint, data, cfg).threw THEN Thrown ELSE Outcome(net)

(***************************************************************************)
(* The application state after construction (useState initial values)      *)
(***************************************************************************)
EmptyObject == << >>

DefaultBaseUrl == <<"h", ":", "/", "/", "x">>

AppInit ==
    /\ activeTab = "setup"
    /\ specInput = [raw |-> "", syntaxOk |-> FALSE, json |-> None]
    /\ parsedSpec = None
    /\ error = ""
    /\ config = [baseUrl |-> DefaultBaseUrl, token |-> << >>, headers |-> << >>]
    /\ selectedEndpoint = None
    /\ formData = EmptyObject
    /\ manualResponse = None
    /\ loading = FALSE
    /\ batchFile = None
    /\ batchData = << >>
    /\ batchResults = << >>
    /\ batchProgress = 0
    /\ batchRunning = FALSE
    /\ readers = {}
    /\ batchRuns = << >>
    /\ manualCalls = << >>

NoFn == [fn |-> "none"]

(***************************************************************************)
(* CSV round trip: a cell value written by the export and read back by     *)
(* the parser, in a file of two columns                                    *)
(***************************************************************************)
MaxCellLen == 3


RECURSIVE StringsUpTo(_, _)
StringsUpTo(alphabet, n) ==
    IF n = 0 THEN {<< >>}
    ELSE LET shorter == StringsUpTo(alphabet, n - 1)
         IN  shorter \cup {Append(t, c) : t \in shorter, c \in alphabet}

CellValues == StringsUpTo({"a", "b", ",", DQ, NL}, MaxCellLen)

ColH == <<"h">>
ColK == <<"k">>
CellX == <<"x">>

RowWith(v) == (ColH :> v) @@ (ColK :> CellX)

CsvInit ==
    /\ AppInit
    /\ fnArg \in {[fn |-> "csv", arg |-> v] : v \in CellValues}
    /\ fnRes = None

\* Export one row holding the value, then parse the exported text
CsvRoundTrip ==
    /\ fnArg.fn = "csv"
    /\ ~fnRes.has
    /\ fnRes' = Some(parseCSV(CsvContent(<<ColH, ColK>>, <<RowWith(fnArg.arg)>>)))
    /\ UNCHANGED <<appVars, fnArg>>

SpecCsv == CsvInit /\ [][CsvRoundTrip]_vars

\* C8: every cell value, also one holding a comma, a double quote or a
\* newline, is read back from the exported text as the identical value (the
\* parsed file is the one row that was written).
C8_RoundTrip ==
    (fnArg.fn = "csv" /\ fnRes.has) => fnRes.v = <<RowWith(fnArg.arg)>>

(***************************************************************************)
(* Handlers of the App component                                           *)
(***************************************************************************)
\* The textarea's onChange (line 602), on the setup tab
SetSpecInput(text) ==
    /\ activeTab = "setup"
    /\ specInput' = text
    /\ UNCHANGED <<activeTab, parsedSpec, error, config, selectedEndpoint,
                   formData, manualResponse, loading, batchFile, batchData,
                   batchResults, batchProgress, batchRunning, readers,
                   batchRuns, manualCalls, fnVars>>

\* A faulty variant: the catch block also drops the catalog held so far
handleSpecParseResetting ==
    /\ activeTab = "setup"
    /\ LET built == BuildCatalog(specInput)
       IN  IF built.threw
           THEN /\ error' = built.message
                /\ parsedSpec' = None
                /\ UNCHANGED activeTab
           ELSE /\ parsedSpec' = Some(built.parsedSpec)
                /\ error' = ""
                /\ activeTab' = "manual"
    /\ UNCHANGED <<specInput, config, selectedEndpoint, formData,
                   manualResponse, loading, batchFile, batchData, batchResults,
                   batchProgress, batchRunning, readers, batchRuns,
                   manualCalls, fnVars>>

\* handleSpecParse, the Parse Spec button of the setup tab
handleSpecParse ==
    /\ activeTab = "setup"
    /\ LET built == BuildCatalog(specInput)
       IN  IF built.threw
           THEN /\ error' = built.message
                /\ UNCHANGED <<parsedSpec, activeTab>>
           ELSE /\ parsedSpec' = Some(built.parsedSpec)
                /\ error' = ""
                /\ activeTab' = "manual"
    /\ UNCHANGED <<specInput, config, selectedEndpoint, formData,
                   manualResponse, loading, batchFile, batchData, batchResults,
                   batchProgress, batchRunning, readers, batchRuns,
                   manualCalls, fnVars>>

\* The header buttons (lines 560-581): Manual Test and Batch Test are
\* rendered only once a spec is parsed
SetActiveTab(tab) ==
    /\ tab \in {"setup", "manual", "batch"}
    /\ tab # "setup" => parsedSpec.has
    /\ activeTab' = tab
    /\ UNCHANGED <<specInput, parsedSpec, error, config, selectedEndpoint,
                   formData, manualResponse, loading, batchFile, batchData,
                   batchResults, batchProgress, batchRunning, readers,
                   batchRuns, manualCalls, fnVars>>

\* The base URL inputs (lines 456-462, 627-633): every tab shows one
SetBaseUrl(url) ==
    /\ activeTab = "manual" => parsedSpec.has
    /\ config' = [config EXCEPT !.baseUrl = url]
    /\ UNCHANGED <<activeTab, specInput, parsedSpec, error, selectedEndpoint,
                   formData, manualResponse, loading, batchFile, batchData,
                   batchResults, batchProgress, batchRunning, readers,
                   batchRuns, manualCalls, fnVars>>

\* The Auth Token input of the setup tab (lines 637-643)
SetToken(token) ==
    /\ activeTab = "setup"
    /\ config' = [config EXCEPT !.token = token]
    /\ UNCHANGED <<activeTab, specInput, parsedSpec, error, selectedEndpoint,
                   formData, manualResponse, loading, batchFile, batchData,
                   batchResults, batchProgress, batchRunning, readers,
                   batchRuns, manualCalls, fnVars>>

\* parsedSpec.endpoints.find(ep => ep.id === id)
FindById(endpoints, id) ==
    endpoints[CHOOSE i \in 1..Len(endpoints) :
                 /\ endpoints[i].id = id
                 /\ \A j \in 1..(i - 1) : endpoints[j].id # id]

\* handleSelectEndpoint: the sidebar buttons of the manual tab pass the
\* endpoint, the select of the batch tab passes the endpoint found by id
handleSelectEndpoint ==
    /\ activeTab \in {"manual", "batch"}
    /\ parsedSpec.has
    /\ \E i \in 1..Len(parsedSpec.v.endpoints) :
          LET ep == IF activeTab = "batch"
                    THEN FindById(parsedSpec.v.endpoints,
                                  parsedSpec.v.endpoints[i].id)
                    ELSE parsedSpec.v.endpoints[i]
          IN  /\ selectedEndpoint' = Some(ep)
              /\ manualResponse' = None
              /\ formData' = EmptyObject
    /\ UNCHANGED <<activeTab, specInput, parsedSpec, error, config, loading,
                   batchFile, batchData, batchResults, batchProgress,
                   batchRunning, readers, batchRuns, manualCalls, fnVars>>

\* The names of the inputs renderEndpointFields shows for an endpoint
FieldNames(ep) ==
    ParamNames(ep) \cup (IF HasBody(ep) THEN BodyFieldNames(ep) ELSE {})

\* An input's onChange (line 533): setFormData({...formData, [name]: value})
SetFormData(name, value) ==
    /\ activeTab = "manual"
    /\ parsedSpec.has
    /\ selectedEndpoint.has
    /\ name \in FieldNames(selectedEndpoint.v)
    /\ formData' = (name :> value) @@ formData
    /\ UNCHANGED <<activeTab, specInput, parsedSpec, error, config,
                   selectedEndpoint, manualResponse, loading, batchFile,
                   batchData, batchResults, batchProgress, batchRunning,
                   readers, batchRuns, manualCalls, fnVars>>

MaxManual == 1

\* runManualTest up to its await: the Send Request button is rendered for a
\* selected endpoint and disabled while loading
runManualTest ==
    /\ activeTab = "manual"
    /\ parsedSpec.has
    /\ selectedEndpoint.has
    /\ ~loading
    /\ Len(manualCalls) < MaxManual
    /\ loading' = TRUE
    /\ LET request == BuildRequest(selectedEndpoint.v, formData, config)
       IN  manualCalls' = Append(manualCalls,
               IF request.threw THEN [pc |-> "threw"]
               ELSE [pc |-> "await",
                     endpoint |-> selectedEndpoint.v,
                     request |-> request])
    /\ UNCHANGED <<activeTab, specInput, parsedSpec, error, config,
                   selectedEndpoint, formData, manualResponse, batchFile,
                   batchData, batchResults, batchProgress, batchRunning,
                   readers, batchRuns, fnVars>>

\* runManualTest after its await: the request of call c settles as net
ManualSettle(c, net) ==
    /\ c \in 1..Len(manualCalls)
    /\ manualCalls[c].pc = "await"
    /\ LET result == Outcome(net)
       IN  IF result.threw
           THEN /\ manualCalls' = [manualCalls EXCEPT ![c] = [pc |-> "threw"]]
                /\ UNCHANGED <<manualResponse, loading>>
           ELSE /\ manualCalls' = [manualCalls EXCEPT ![c] = [pc |-> "done"]]
                /\ manualResponse' = Some(result)
                /\ loading' = FALSE
    /\ UNCHANGED <<activeTab, specInput, parsedSpec, error, config,
                   selectedEndpoint, formData, batchFile, batchData,
                   batchResults, batchProgress, batchRunning, readers,
                   batchRuns, fnVars>>

\* handleBatchUpload: the file input of the batch tab; the file is read
\* asynchronously
handleBatchUpload(file) ==
    /\ activeTab = "batch"
    /\ batchFile' = Some(file.name)
    /\ readers' = readers \cup {file}
    /\ UNCHANGED <<activeTab, specInput, parsedSpec, error, config,
                   selectedEndpoint, formData, manualResponse, loading,
                   batchData, batchResults, batchProgress, batchRunning,
                   batchRuns, manualCalls, fnVars>>

\* reader.onload (lines 376-381)
ReaderOnload(file) ==
    /\ file \in readers
    /\ readers' = readers \ {file}
    /\ batchData' = parseCSV(file.text)
    /\ batchResults' = << >>
    /\ UNCHANGED <<activeTab, specInput, parsedSpec, error, config,
                   selectedEndpoint, formData, manualResponse, loading,
                   batchFile, batchProgress, batchRunning, batchRuns,
                   manualCalls, fnVars>>

\* clearBatchData: the Clear button, rendered while batchData is not empty
clearBatchData ==
    /\ activeTab = "batch"
    /\ Len(batchData) > 0
    /\ batchFile' = None
    /\ batchData' = << >>
    /\ batchResults' = << >>
    /\ batchProgress' = 0
    /\ batchRunning' = FALSE
    /\ UNCHANGED <<activeTab, specInput, parsedSpec, error, config,
                   selectedEndpoint, formData, manualResponse, loading,
                   readers, batchRuns, manualCalls, fnVars>>

KRowIndex == <<"_", "r", "o", "w", "I", "n", "d", "e", "x">>
KStatus == <<"_", "s", "t", "a", "t", "u", "s">>
KSuccess == <<"_", "s", "u", "c", "c", "e", "s", "s">>
KResponse == <<"_", "r", "e", "s", "p", "o", "n", "s", "e">>
Pass == <<"P", "A", "S", "S">>
Fail == <<"F", "A", "I", "L">>

NumV(n) == [num |-> n]
StrV(s) == [str |-> s]

\* resultRow (lines 404-411): a later key of the literal overwrites an
\* earlier one of the same name
ResultRow(i, row, result) ==
    (KResponse :> StrV(result.data.s))
    @@ (KSuccess :> StrV(IF result.success THEN Pass ELSE Fail))
    @@ (KStatus :> NumV(result.status))
    @@ [k \in DOMAIN row |-> StrV(row[k])]
    @@ (KRowIndex :> NumV(i + 1))

\* A faulty variant: the percentage is cut off, not rounded
ProgressTruncated(done, n) == (100 * done) \div n

\* Math.round(((i + 1) / n) * 100)
Progress(done, n) == (200 * done + n) \div (2 * n)

MaxRuns == 2

\* A faulty variant: each request reads the configuration on display
RunAtLiveConfig(endpoint, data, cfg, i, results) ==
    LET request == BuildRequest(endpoint, data[i + 1], config)
    IN  IF request.threw THEN [pc |-> "threw"]
        ELSE [pc |-> "await",
              endpoint |-> endpoint,
              data |-> data,
              config |-> config,
              i |-> i,
              results |-> results,
              request |-> request]

\* The loop of runBatchTest at row i + 1: executeRequest hands the request
\* to fetch and the run awaits it, or executeRequest throws and the error
\* leaves runBatchTest
RunAt(endpoint, data, cfg, i, results) ==
    LET request == BuildRequest(endpoint, data[i + 1], cfg)
    IN  IF request.threw THEN [pc |-> "threw"]
        ELSE [pc |-> "await",
              endpoint |-> endpoint,
              data |-> data,
              config |-> cfg,
              i |-> i,
              results |-> results,
              request |-> request]

\* runBatchTest up to its first await: the Start Batch Run button is
\* disabled without an endpoint, without rows and while batchRunning
runBatchTest ==
    /\ activeTab = "batch"
    /\ selectedEndpoint.has /\ Len(batchData) > 0 /\ ~batchRunning
    /\ Len(batchRuns) < MaxRuns
    /\ batchRunning' = TRUE
    /\ batchResults' = << >>
    /\ batchRuns' = Append(batchRuns,
           RunAt(selectedEndpoint.v, batchData, config, 0, << >>))
    /\ UNCHANGED <<activeTab, specInput, parsedSpec, error, config,
                   selectedEndpoint, formData, manualResponse, loading,
                   batchFile, batchData, batchProgress, readers, manualCalls,
                   fnVars>>

\* runBatchTest from one await to the next (or to its end): the request of
\* row i + 1 of run r settles as net
BatchSettle(r, net) ==
    /\ r \in 1..Len(batchRuns)
    /\ batchRuns[r].pc = "await"
    /\ LET run == batchRuns[r]
           result == Outcome(net)
           results == Append(run.results,
                             ResultRow(run.i, run.data[run.i + 1], result))
       IN  IF result.threw
           THEN /\ batchRuns' = [batchRuns EXCEPT ![r] = [pc |-> "threw"]]
                /\ UNCHANGED <<batchResults, batchProgress, batchRunning>>
           ELSE /\ batchResults' = results
                /\ batchProgress' = Progress(run.i + 1, Len(run.data))
                /\ IF run.i + 1 < Len(run.data)
                   THEN /\ batchRuns' = [batchRuns EXCEPT ![r] =
                               RunAt(run.endpoint, run.data, run.config,
                                     run.i + 1, results)]
                        /\ UNCHANGED batchRunning
                   ELSE /\ batchRuns' = [batchRuns EXCEPT ![r] = [pc |-> "done"]]
                        /\ batchRunning' = FALSE
    /\ UNCHANGED <<activeTab, specInput, parsedSpec, error, config,
                   selectedEndpoint, formData, manualResponse, loading,
                   batchFile, batchData, readers, manualCalls, fnVars>>

(***************************************************************************)
(* Catalog building over generated documents: the Parse Spec button        *)
(* pressed on a text the user has entered                                  *)
(***************************************************************************)
MaxPaths == 2

PathNames == <<<<"/", "a">>, <<"/", "b">>, <<"/", "c">>>>

\* Keys of a path item: verbs in several letter cases, and keys that are
\* no verb
ItemKeys == <<<<"g", "e", "t">>, <<"G", "E", "T">>, <<"P", "o", "s", "t">>, <<"o", "p", "t", "i", "o", "n", "s">>, <<"p", "a", "r", "a", "m", "e", "t", "e", "r", "s">>>>

PlainDetails ==
    [summary |-> None, operationId |-> None, parameters |-> None,
     requestBody |-> None]

RECURSIVE SubSeqsOf(_)
SubSeqsOf(seq) ==
    IF seq = << >> THEN {<< >>}
    ELSE LET rest == SubSeqsOf(Tail(seq))
         IN  rest \cup {<<Head(seq)>> \o t : t \in rest}

GenItems ==
    {[i \in 1..Len(keys) |-> [key |-> keys[i], details |-> PlainDetails]] :
        keys \in SubSeqsOf(ItemKeys) \ {<< >>}}

RECURSIVE GenPathsFrom(_)
GenPathsFrom(names) ==
    IF names = << >> THEN {<< >>}
    ELSE LET rest == GenPathsFrom(Tail(names))
         IN  rest \cup {<<[path |-> Head(names), item |-> it]>> \o t :
                            it \in GenItems, t \in rest}

DocOf(paths) ==
    [info |-> "info", paths |-> paths, definitions |-> None, schemas |-> None]

TextOf(raw, doc) == [raw |-> raw, syntaxOk |-> TRUE, json |-> Some(doc)]

MalformedText == [raw |-> "{", syntaxOk |-> FALSE, json |-> None]

NoPathsText == TextOf("nopaths", DocOf(None))

GenTexts ==
    {TextOf("gen", DocOf(Some(ps))) :
        ps \in GenPathsFrom(SubSeq(PathNames, 1, MaxPaths))}
    \cup {MalformedText, NoPathsText}

CatalogInit ==
    /\ activeTab = "setup"
    /\ specInput \in GenTexts
    /\ parsedSpec = None
    /\ error = ""
    /\ config = [baseUrl |-> DefaultBaseUrl, token |-> << >>, headers |-> << >>]
    /\ selectedEndpoint = None
    /\ formData = EmptyObject
    /\ manualResponse = None
    /\ loading = FALSE
    /\ batchFile = None
    /\ batchData = << >>
    /\ batchResults = << >>
    /\ batchProgress = 0
    /\ batchRunning = FALSE
    /\ readers = {}
    /\ batchRuns = << >>
    /\ manualCalls = << >>
    /\ fnArg = NoFn
    /\ fnRes = None

SpecCatalog == CatalogInit /\ [][handleSpecParse]_vars

\* The (path, key) pairs of a document whose key is one of the verbs in
\* any letter case
VerbPairs(doc) ==
    UNION {{<<doc.paths.v[p].path, doc.paths.v[p].item[k].key>> :
               k \in {n \in 1..Len(doc.paths.v[p].item) :
                         toLowerCase(doc.paths.v[p].item[n].key) \in Verbs}} :
           p \in 1..Len(doc.paths.v)}

\* C10: a document with a paths mapping is parsed without error, and the
\* catalog built from it holds exactly one descriptor for each (path, key)
\* pair whose key is a verb in any letter case, none for any other key, and
\* no two descriptors share an id.
C10_Catalog ==
    (specInput.syntaxOk /\ specInput.json.v.paths.has) =>
        /\ error = ""
        /\ parsedSpec.has =>
              LET eps == parsedSpec.v.endpoints
                  pairs == VerbPairs(specInput.json.v)
              IN  /\ \A pk \in pairs :
                         Cardinality({i \in 1..Len(eps) :
                             eps[i].path = pk[1] /\ eps[i].method = pk[2]}) = 1
                  /\ \A i \in 1..Len(eps) :
                         <<eps[i].path, eps[i].method>> \in pairs
                  /\ \A i, j \in 1..Len(eps) : i # j => eps[i].id # eps[j].id

C10_Witness ==
    /\ parsedSpec.has
    /\ specInput.syntaxOk /\ specInput.json.v.paths.has
    /\ Len(specInput.json.v.paths.v) = 2
    /\ Len(parsedSpec.v.endpoints) = 3
    /\ \E i \in 1..3 : parsedSpec.v.endpoints[i].method = <<"G", "E", "T">>
    /\ \E i \in 1..3 : parsedSpec.v.endpoints[i].method = <<"g", "e", "t">>
    /\ \E p \in 1..2 : Len(specInput.json.v.paths.v[p].item) = 5

(***************************************************************************)
(* executeRequest over generated endpoints, value mappings and network     *)
(* behaviours                                                              *)
(***************************************************************************)
KId == <<"i", "d">>
KQ == <<"q">>
KName == <<"n", "a", "m", "e">>
KAge == <<"a", "g", "e">>
KExtra == <<"e", "x", "t", "r", "a">>
Seven == <<"7">>

PathParam(name) == [name |-> name, in |-> InPath]
QueryParam(name) == [name |-> name, in |-> InQuery]

UserProperties ==
    <<[name |-> KName, type |-> None, description |-> None],
      [name |-> KAge, type |-> Some(<<"i", "n", "t", "e", "g", "e", "r">>), description |-> None]>>

UserSchema ==
    [ref |-> None, properties |-> Some(UserProperties), required |-> Some(<<KName>>)]

RefSchema(ref) == [ref |-> Some(ref), properties |-> None, required |-> None]

UserRef == <<"#", "/", "d", "e", "f", "i", "n", "i", "t", "i", "o", "n", "s", "/", "U", "s", "e", "r">>
GoneRef == <<"#", "/", "d", "e", "f", "i", "n", "i", "t", "i", "o", "n", "s", "/", "G", "o", "n", "e">>

UserDefinitions == Some((<<"U", "s", "e", "r">> :> UserSchema))

ExecMethods == {<<"p", "o", "s", "t">>, <<"P", "O", "S", "T">>, <<"g", "e", "t">>, <<"p", "a", "t", "c", "h">>}

ExecParameters ==
    { << >>,
      <<PathParam(KId)>>,
      <<PathParam(KId), QueryParam(KQ)>>,
      <<QueryParam(KName)>>,
      <<PathParam(KValueOf)>> }

ExecRequestBodies ==
    { None,
      Some([schema |-> None]),
      Some([schema |-> Some(UserSchema)]),
      Some([schema |-> Some(RefSchema(UserRef))]),
      Some([schema |-> Some(RefSchema(GoneRef))]) }

UserPath == <<"/", "u", "/", "{", "i", "d", "}">>
HookPath == <<"/", "h", "/", "{", "v", "a", "l", "u", "e", "O", "f", "}">>

ExecEndpoints ==
    {[id |-> EndpointId(m, path), path |-> path, method |-> m,
      summary |-> path, parameters |-> ps, requestBody |-> rb,
      definitions |-> UserDefinitions] :
        m \in ExecMethods,
        path \in {UserPath, HookPath,
                  <<"/", "u", "/", "{", "i", "d", "}", "/", "{", "i", "d", "}">>},
        ps \in ExecParameters, rb \in ExecRequestBodies}

ExecKeys == {KId, KQ, KName, KAge, KExtra}

ExecData ==
    UNION {[keys -> {Seven}] : keys \in SUBSET ExecKeys}
    \cup {(KValueOf :> Seven)}
    \cup {(KId :> v) : v \in {<< >>, <<"a", "$", "$", "b">>, <<"$", "&">>}}

JsonBody == [present |-> TRUE, raw |-> <<"{", "\"", "a", "\"", ":", "1", "}">>,
             json |-> Some([type |-> "object", s |-> <<"{", "\"", "a", "\"", ":", "1", "}">>])]
TextBody == [present |-> TRUE, raw |-> <<"o", "o", "p", "s">>, json |-> None]
NullBody == [present |-> FALSE, raw |-> << >>, json |-> None]

NetReject == [kind |-> "reject", message |-> <<"F", "a", "i", "l", "e", "d">>]
NetResponse(status, body) == [kind |-> "response", status |-> status, body |-> body]

ExecNets ==
    {NetReject, NetResponse(200, JsonBody), NetResponse(404, JsonBody),
     NetResponse(500, JsonBody), NetResponse(200, TextBody),
     NetResponse(404, TextBody), NetResponse(204, NullBody)}

DefaultConfig == [baseUrl |-> DefaultBaseUrl, token |-> << >>, headers |-> << >>]

ExecInit ==
    /\ AppInit
    /\ fnArg \in {[fn |-> "exec", endpoint |-> ep, data |-> d, net |-> net] :
                      ep \in ExecEndpoints, d \in ExecData, net \in ExecNets}
    /\ fnRes = None

\* One call of executeRequest: the request it hands to fetch and what it
\* returns once the network has answered
Execute ==
    /\ fnArg.fn = "exec"
    /\ ~fnRes.has
    /\ fnRes' = Some([request |-> BuildRequest(fnArg.endpoint, fnArg.data,
                                                DefaultConfig),
                       result |-> executeRequest(fnArg.endpoint, fnArg.data,
                                                 DefaultConfig, fnArg.net)])
    /\ UNCHANGED <<appVars, fnArg>>

SpecExec == ExecInit /\ [][Execute]_vars

Executed == fnArg.fn = "exec" /\ fnRes.has

\* C4: executeRequest returns status 0, success false and the transport
\* error flag exactly when the call received no response; on a response
\* with status s it returns status s, success iff 200 <= s <= 299, and no
\* transport error flag.
C4_Classification ==
    Executed =>
        LET res == fnRes.v.result
            net == fnArg.net
        IN  /\ ~res.threw
            /\ (res.status = 0 /\ ~res.success /\ res.isNetworkError)
                  <=> (net.kind = "reject")
            /\ net.kind = "response" =>
                  /\ res.status = net.status
                  /\ res.success <=> (200 <= net.status /\ net.status <= 299)
                  /\ ~res.isNetworkError

\* C5: on a response whose body is not JSON, executeRequest returns the
\* response's status with the raw body text, does not throw, and does not
\* flag a transport error.
C5_TextFallback ==
    (Executed /\ fnArg.net.kind = "response" /\ ~fnArg.net.body.json.has) =>
        LET res == fnRes.v.result
        IN  /\ ~res.threw
            /\ res.status = fnArg.net.status
            /\ res.data = [type |-> "string", s |-> fnArg.net.body.raw]
            /\ ~res.isNetworkError

\* The names of the parameters of an endpoint at one location
NamesIn(ep, location) ==
    {ep.parameters[i].name :
        i \in {n \in 1..Len(ep.parameters) : ep.parameters[n].in = location}}

\* The field names the flattener resolves for the body schema
ResolvedFields(ep) ==
    LET fields == extractFieldsFromSchema(ep.requestBody.v.schema, ep.definitions)
    IN  {fields[i].name : i \in 1..Len(fields)}

\* C9: the body of a body-carrying request holds exactly the keys of the
\* value mapping that are no path parameter name and are among the resolved
\* body fields (all such keys when no field was resolved); the name of a
\* query parameter is not excluded.
C9_BodyKeys ==
    (Executed /\ ~fnRes.v.request.threw /\ fnRes.v.request.body.has) =>
        LET ep == fnArg.endpoint
            fields == ResolvedFields(ep)
        IN  DOMAIN fnRes.v.request.body.v =
                {k \in DOMAIN fnArg.data :
                    /\ k \notin NamesIn(ep, InPath)
                    /\ fields = {} \/ k \in fields}

\* C9 as amended: the excluded keys are the names of all declared
\* parameters, whatever their location; the values are copied unchanged.
C9_BodyKeysAmended ==
    (Executed /\ ~fnRes.v.request.threw /\ fnRes.v.request.body.has) =>
        LET ep == fnArg.endpoint
            fields == ResolvedFields(ep)
            body == fnRes.v.request.body.v
        IN  /\ DOMAIN body =
                  {k \in DOMAIN fnArg.data :
                      /\ \A i \in 1..Len(ep.parameters) : ep.parameters[i].name # k
                      /\ fields = {} \/ k \in fields}
            /\ \A k \in DOMAIN body : body[k] = fnArg.data[k]

\* A body built with no resolved field from a mapping that holds the names
\* of a path and of a query parameter
C9_Witness ==
    /\ Executed
    /\ ~fnRes.v.request.threw
    /\ fnRes.v.request.body.has
    /\ fnArg.endpoint.parameters = <<PathParam(KId), QueryParam(KQ)>>
    /\ ResolvedFields(fnArg.endpoint) = {}
    /\ DOMAIN fnArg.data = ExecKeys
    /\ DOMAIN fnRes.v.request.body.v = {KName, KAge, KExtra}

(***************************************************************************)
(* The portal: the user's actions and the settling of requests, from the   *)
(* state after construction                                                *)
(***************************************************************************)
UserDetails ==
    [summary |-> None, operationId |-> None,
     parameters |-> Some(<<PathParam(KId)>>),
     requestBody |-> Some([schema |-> Some(RefSchema(UserRef))])]

HookDetails ==
    [summary |-> None, operationId |-> None,
     parameters |-> Some(<<PathParam(KValueOf)>>),
     requestBody |-> None]

DocA ==
    [info |-> "A",
     paths |-> Some(<<[path |-> HookPath,
                       item |-> <<[key |-> <<"g", "e", "t">>, details |-> HookDetails]>>],
                      [path |-> UserPath,
                       item |-> <<[key |-> <<"p", "o", "s", "t">>, details |-> UserDetails]>>]>>),
     definitions |-> UserDefinitions,
     schemas |-> None]

DocB ==
    [info |-> "B",
     paths |-> Some(<<[path |-> <<"/", "b">>,
                       item |-> <<[key |-> <<"g", "e", "t">>, details |-> PlainDetails]>>]>>),
     definitions |-> None,
     schemas |-> None]

TextA == TextOf("A", DocA)
TextB == TextOf("B", DocB)

PortalTexts == {TextA, TextB, MalformedText, NoPathsText}

BaseUrls == {DefaultBaseUrl, <<"h", ":", "/", "/", "y", "/">>}

\* Two CSV files: two rows under the header id; one row under the header
\* _rowIndex
FileOne == [name |-> "one.csv", text |-> <<"i", "d", "\n", "7", "\n", "8">>]
FileTwo == [name |-> "two.csv", text |-> <<"_", "r", "o", "w", "I", "n", "d", "e", "x", "\n", "9">>]
Files == {FileOne, FileTwo}

Nets == {NetReject, NetResponse(200, JsonBody), NetResponse(404, JsonBody)}

PortalInit ==
    /\ AppInit
    /\ fnArg = NoFn
    /\ fnRes = None

\* The setup and manual tabs. The handlers of the batch tab write only the
\* batch state and are left to Spec below.
PortalNext ==
    \/ \E text \in PortalTexts : SetSpecInput(text)
    \/ handleSpecParse
    \/ \E tab \in {"setup", "manual", "batch"} : SetActiveTab(tab)
    \/ \E url \in BaseUrls : SetBaseUrl(url)
    \/ handleSelectEndpoint
    \/ \E name \in ExecKeys \cup {KValueOf} : SetFormData(name, Seven)
    \/ runManualTest
    \/ \E c \in 1..MaxManual, net \in Nets : ManualSettle(c, net)

SpecPortal == PortalInit /\ [][PortalNext]_vars

\* A session on the batch tab, from the state the portal is in once the
\* user has parsed TextA and opened the batch tab. The user selects
\* endpoints, uploads files, clears and starts runs while requests settle.
Init ==
    /\ activeTab = "batch"
    /\ specInput = TextA
    /\ parsedSpec = Some(BuildCatalog(TextA).parsedSpec)
    /\ error = ""
    /\ config = DefaultConfig
    /\ selectedEndpoint = None
    /\ formData = EmptyObject
    /\ manualResponse = None
    /\ loading = FALSE
    /\ batchFile = None
    /\ batchData = << >>
    /\ batchResults = << >>
    /\ batchProgress = 0
    /\ batchRunning = FALSE
    /\ readers = {}
    /\ batchRuns = << >>
    /\ manualCalls = << >>
    /\ fnArg = NoFn
    /\ fnRes = None

Next ==
    \/ handleSelectEndpoint
    \/ \E file \in Files : handleBatchUpload(file)
    \/ \E file \in Files : ReaderOnload(file)
    \/ clearBatchData
    \/ runBatchTest
    \/ \E r \in 1..MaxRuns, net \in Nets : BatchSettle(r, net)

Spec == Init /\ [][Next]_vars

\* The initial state of Spec is one the portal reaches
BatchTabReached ==
    /\ activeTab = "batch"
    /\ specInput = TextA
    /\ parsedSpec = Some(BuildCatalog(TextA).parsedSpec)
    /\ error = ""
    /\ config = DefaultConfig
    /\ selectedEndpoint = None
    /\ manualCalls = << >>

\* The batch tab with one file of three rows at hand, requests that fail
\* or succeed, and the same initial state as Spec
FileThree == [name |-> "three.csv", text |-> <<"i", "d", "\n", "7", "\n", "8", "\n", "9">>]

RunNext ==
    \/ handleSelectEndpoint
    \/ handleBatchUpload(FileThree)
    \/ ReaderOnload(FileThree)
    \/ clearBatchData
    \/ runBatchTest
    \/ \E r \in 1..MaxRuns, net \in {NetReject, NetResponse(200, JsonBody)} :
          BatchSettle(r, net)

SpecRun == Init /\ [][RunNext]_vars

(***************************************************************************)
(* Properties of the batch runner (Spec)                                   *)
(***************************************************************************)
InFlight == {r \in 1..Len(batchRuns) : batchRuns[r].pc = "await"}

Completes(r) == batchRuns[r].pc = "await" /\ batchRuns'[r].pc = "done"

ResultKeys == {KRowIndex, KStatus, KSuccess, KResponse}

\* C1: when a run over n rows completes, the published result set has
\* exactly n rows, the k-th of them carries row index k and the values of
\* the k-th input row, whatever the outcome of each row.
C1_RowsComplete ==
    [][\A r \in 1..Len(batchRuns) :
          Completes(r) =>
              LET data == batchRuns[r].data
              IN  /\ Len(batchResults') = Len(data)
                  /\ \A k \in 1..Len(data) :
                        /\ batchResults'[k][KRowIndex] = NumV(k)
                        /\ \A key \in DOMAIN data[k] \ ResultKeys :
                              batchResults'[k][key] = StrV(data[k][key])]_vars

\* The part of C1 that does not read the index field: the count and the
\* order of the rows of a completed run
C1_CountAndOrder ==
    [][\A r \in 1..Len(batchRuns) :
          Completes(r) =>
              LET data == batchRuns[r].data
              IN  /\ Len(batchResults') = Len(data)
                  /\ \A k \in 1..Len(data) :
                        \A key \in DOMAIN data[k] \ ResultKeys :
                            batchResults'[k][key] = StrV(data[k][key])]_vars

NetFailed(net) ==
    net.kind = "reject" \/ ~(200 <= net.status /\ net.status <= 299)

\* C2: no exception leaves executeRequest or runBatchTest, for any
\* endpoint and any row; when the request of a row settles, failed or not,
\* the row is appended to the published results, as FAIL when the request
\* failed (no response, or a status outside 200..299), and the run goes on
\* to the next row if there is one.
C2_FailuresRecorded ==
    [][/\ \A r \in 1..Len(batchRuns') : batchRuns'[r].pc # "threw"
       /\ \A r \in 1..Len(batchRuns) : \A net \in Nets :
             BatchSettle(r, net) =>
                 LET run == batchRuns[r]
                     k == run.i + 1
                 IN  /\ Len(batchResults') = k
                     /\ NetFailed(net) => batchResults'[k][KSuccess] = StrV(Fail)
                     /\ ~NetFailed(net) => batchResults'[k][KSuccess] = StrV(Pass)
                     /\ k < Len(run.data) =>
                           /\ batchRuns'[r].pc = "await"
                           /\ batchRuns'[r].i = k
                     /\ k = Len(run.data) => batchRuns'[r].pc = "done"]_vars

\* The part of C2 about requests that were sent: C2 for the runs whose
\* endpoint and rows let executeRequest reach its try block
C2_SentRequests ==
    [][\A r \in 1..Len(batchRuns) : \A net \in Nets :
          BatchSettle(r, net) =>
              LET run == batchRuns[r]
                  k == run.i + 1
              IN  /\ Len(batchResults') = k
                  /\ NetFailed(net) => batchResults'[k][KSuccess] = StrV(Fail)
                  /\ ~NetFailed(net) => batchResults'[k][KSuccess] = StrV(Pass)
                  /\ k < Len(run.data) =>
                        /\ batchRuns'[r].pc = "await"
                        /\ batchRuns'[r].i = k
                  /\ k = Len(run.data) => batchRuns'[r].pc = "done"]_vars

\* C3: at every moment at most one batch request is in flight, whatever the
\* user does (Start Batch Run, Clear, CSV upload, endpoint selection) while
\* a run is in progress.
C3_OneInFlight == Cardinality(InFlight) <= 1

(***************************************************************************)
(* Properties of the spec import (SpecPortal)                              *)
(***************************************************************************)
Catalog == {parsedSpec.v.endpoints[i] : i \in 1..Len(parsedSpec.v.endpoints)}

\* C6: a failing import (text that is not JSON, or a document without
\* paths) records the error message and leaves the catalog, the selected
\* endpoint and the active tab as they were; the catalog held is always the
\* complete catalog of one accepted document.
C6_FailedImportFrame ==
    [][/\ (handleSpecParse /\ BuildCatalog(specInput).threw) =>
            /\ error' = BuildCatalog(specInput).message
            /\ parsedSpec' = parsedSpec
            /\ selectedEndpoint' = selectedEndpoint
            /\ activeTab' = activeTab
       /\ parsedSpec'.has =>
            parsedSpec'.v \in {BuildCatalog(TextA).parsedSpec,
                                BuildCatalog(TextB).parsedSpec}]_vars

\* An import has failed for missing paths while a catalog was held and an
\* endpoint selected
C6_Witness ==
    /\ error = MissingPaths
    /\ activeTab = "setup"
    /\ parsedSpec.has
    /\ selectedEndpoint.has

\* C7: the selected endpoint is none or a member of the current catalog,
\* and a manual request is only started against a descriptor of the
\* current catalog.
C7_NoStaleDescriptor ==
    [][/\ (parsedSpec'.has /\ selectedEndpoint'.has) =>
            \E i \in 1..Len(parsedSpec'.v.endpoints) :
                parsedSpec'.v.endpoints[i] = selectedEndpoint'.v
       /\ runManualTest => selectedEndpoint.v \in Catalog]_vars

(***************************************************************************)
(* Properties of a batch run in progress (SpecRun)                         *)
(***************************************************************************)
\* SpecRun where every request in flight is settled at some time: fetch
\* resolves or rejects each call
SpecRunFair ==
    SpecRun /\ \A r \in 1..MaxRuns :
                  WF_vars(\E net \in {NetReject, NetResponse(200, JsonBody)} :
                              BatchSettle(r, net))

\* The batch tab and the setup tab: the user edits the base URL and the
\* token while the two rows of FileOne are sent
ConfigNext ==
    \/ \E tab \in {"setup", "batch"} : SetActiveTab(tab)
    \/ \E url \in BaseUrls : SetBaseUrl(url)
    \/ \E token \in {<< >>, <<"t">>} : SetToken(token)
    \/ handleSelectEndpoint
    \/ handleBatchUpload(FileOne)
    \/ ReaderOnload(FileOne)
    \/ runBatchTest
    \/ \E r \in 1..MaxRuns : BatchSettle(r, NetResponse(200, JsonBody))

SpecConfig == Init /\ [][ConfigNext]_vars

Distance(a, b) == IF a >= b THEN a - b ELSE b - a

\* C11: when row k of a run over n rows has completed, the published
\* result set holds exactly the k rows completed so far (the rows published
\* before and the row of input k) and the published progress is the
\* integer nearest to 100 * k / n.
C11_Published ==
    [][\A r \in 1..Len(batchRuns) : \A net \in Nets :
          BatchSettle(r, net) =>
              LET run == batchRuns[r]
                  k == run.i + 1
                  n == Len(run.data)
              IN  /\ Len(batchResults') = k
                  /\ \A j \in 1..(k - 1) : batchResults'[j] = run.results[j]
                  /\ \A j \in 1..k :
                        \A key \in DOMAIN run.data[j] \ ResultKeys :
                            batchResults'[j][key] = StrV(run.data[j][key])
                  /\ 2 * Distance(100 * k, n * batchProgress') <= n]_vars

\* Two of three rows are done and published with progress 67 while the
\* request of the third row is in flight
C11_Witness ==
    /\ \E r \in 1..Len(batchRuns) :
          /\ batchRuns[r].pc = "await"
          /\ batchRuns[r].i = 2
          /\ Len(batchRuns[r].data) = 3
          /\ batchResults = batchRuns[r].results
    /\ Len(batchResults) = 2
    /\ batchProgress = 67

\* C12: while a run is marked running, the progress on display never
\* decreases, also in a run started after an earlier one has completed.
C12_Monotonic ==
    [][(batchRunning /\ batchRunning') => batchProgress' >= batchProgress]_vars

\* C14: the result row of row k carries the index k, every key of the
\* input row with its value, the status code, the label PASS or FAIL (PASS
\* iff success) and the whole serialized response, whatever the headers of
\* the file are, also headers named like the result fields.
C14_ResultRow ==
    [][\A r \in 1..Len(batchRuns) : \A net \in Nets :
          (BatchSettle(r, net) /\ ~Outcome(net).threw) =>
              LET run == batchRuns[r]
                  k == run.i + 1
                  result == Outcome(net)
                  row == batchResults'[k]
              IN  /\ row[KRowIndex] = NumV(k)
                  /\ \A key \in DOMAIN run.data[k] :
                        row[key] = StrV(run.data[k][key])
                  /\ row[KStatus] = NumV(result.status)
                  /\ row[KSuccess] = StrV(IF result.success THEN Pass ELSE Fail)
                  /\ row[KResponse] = StrV(result.data.s)]_vars

\* The same for the input rows that have no key named like a result field
C14_PlainHeaders ==
    [][\A r \in 1..Len(batchRuns) : \A net \in Nets :
          (BatchSettle(r, net) /\ ~Outcome(net).threw) =>
              LET run == batchRuns[r]
                  k == run.i + 1
                  result == Outcome(net)
                  row == batchResults'[k]
              IN  DOMAIN run.data[k] \cap ResultKeys = {} =>
                      /\ row[KRowIndex] = NumV(k)
                      /\ \A key \in DOMAIN run.data[k] :
                            row[key] = StrV(run.data[k][key])
                      /\ row[KStatus] = NumV(result.status)
                      /\ row[KSuccess] = StrV(IF result.success THEN Pass ELSE Fail)
                      /\ row[KResponse] = StrV(result.data.s)]_vars

\* C15: every request of one batch run is built from the base URL, the
\* token and the headers the configuration had when the run was started,
\* whatever the user writes into the configuration during the run.
C15_ConfigSnapshot ==
    [][/\ runBatchTest =>
              LET run == batchRuns'[Len(batchRuns')]
              IN  run.pc = "await" =>
                      /\ run.config = config
                      /\ run.request.headers = RequestHeaders(config)
                      /\ StartsWith(run.request.url,
                                    StripTrailingSlash(config.baseUrl))
       /\ \A r \in 1..Len(batchRuns) :
              (batchRuns[r].pc = "await" /\ batchRuns'[r].pc = "await") =>
                  LET run == batchRuns'[r]
                  IN  /\ run.config = batchRuns[r].config
                      /\ run.request.headers = RequestHeaders(batchRuns[r].config)
                      /\ StartsWith(run.request.url,
                                    StripTrailingSlash(batchRuns[r].config.baseUrl))]_vars

\* The second request of a run is in flight with the base URL and the
\* token of the start, and the configuration on display differs in both
C15_Witness ==
    \E r \in 1..Len(batchRuns) :
        /\ batchRuns[r].pc = "await"
        /\ batchRuns[r].i = 1
        /\ batchRuns[r].config.baseUrl # config.baseUrl
        /\ batchRuns[r].config.token # config.token
        /\ StartsWith(batchRuns[r].request.url,
                      StripTrailingSlash(batchRuns[r].config.baseUrl))
        /\ ~StartsWith(batchRuns[r].request.url, StripTrailingSlash(config.baseUrl))

\* C16: when every request is settled at some time, a started run comes to
\* its end after its last row and the running flag is false again once the
\* run has ended.
C16_Terminates ==
    \A r \in 1..MaxRuns :
        (Len(batchRuns) >= r)
            ~> (Len(batchRuns) >= r /\ batchRuns[r].pc = "done" /\ ~batchRunning)

\* The same for the runs whose first request was handed to fetch
C16_SentRunsTerminate ==
    \A r \in 1..MaxRuns :
        (Len(batchRuns) >= r /\ batchRuns[r].pc = "await")
            ~> (Len(batchRuns) >= r /\ batchRuns[r].pc = "done" /\ ~batchRunning)

\* C19: from the state clearBatchData leaves (no results, progress 0, not
\* running) the result set, the progress and the running flag change only
\* when a new run is started, also when a run was in flight at the Clear.
C19_StaysCleared ==
    [][(batchResults = << >> /\ batchProgress = 0 /\ ~batchRunning /\ ~runBatchTest)
          => (batchResults' = << >> /\ batchProgress' = 0 /\ ~batchRunning')]_vars

\* The same while no request of an earlier run is in flight
C19_ClearedAtRest ==
    [][(batchResults = << >> /\ batchProgress = 0 /\ ~batchRunning /\ ~runBatchTest
           /\ InFlight = {})
          => (batchResults' = << >> /\ batchProgress' = 0 /\ ~batchRunning')]_vars

\* C20: the manual response on display is the outcome of a request that
\* was started for the endpoint that is selected: a request that completes
\* and is put on display was started for the selected endpoint, also when
\* the user has selected an endpoint since it was started.
C20_ResponseOfSelected ==
    [][\A c \in 1..Len(manualCalls) :
          (manualCalls[c].pc = "await" /\ manualCalls'[c].pc = "done"
              /\ manualResponse'.has) =>
              selectedEndpoint = Some(manualCalls[c].endpoint)]_vars

(***************************************************************************)
(* Properties of the path binding (SpecExec)                               *)
(***************************************************************************)
\* s with every occurrence of pat replaced by the text val
RECURSIVE ReplaceAllLiteral(_, _, _)
ReplaceAllLiteral(s, pat, val) ==
    IF s = << >> THEN << >>
    ELSE IF StartsWith(s, pat)
    THEN val \o ReplaceAllLiteral(SubSeq(s, Len(pat) + 1, Len(s)), pat, val)
    ELSE <<Head(s)>> \o ReplaceAllLiteral(Tail(s), pat, val)

\* The path template with the placeholder of every path parameter replaced
\* by its value in the mapping, or by the empty text when it has none
RECURSIVE LiteralBind(_, _, _)
LiteralBind(path, params, data) ==
    IF params = << >> THEN path
    ELSE LiteralBind(IF Head(params).in = InPath
                     THEN ReplaceAllLiteral(path, Placeholder(Head(params).name),
                              IF Head(params).name \in DOMAIN data
                              THEN data[Head(params).name] ELSE << >>)
                     ELSE path,
                     Tail(params), data)

\* C13: the URL handed to fetch is the base URL followed by the path
\* template in which the placeholder of every path parameter is replaced by
\* the parameter's value as it stands in the value mapping, or by the empty
\* text when absent, and then by the query if there is one. Stated for the
\* parameter names that no value mapping inherits.
C13_PathBound ==
    (/\ Executed
     /\ \A i \in 1..Len(fnArg.endpoint.parameters) :
           fnArg.endpoint.parameters[i].name # KValueOf) =>
        /\ ~fnRes.v.request.threw
        /\ LET ep == fnArg.endpoint
               expected == DefaultBaseUrl
                           \o LiteralBind(ep.path, ep.parameters, fnArg.data)
               url == fnRes.v.request.url
           IN  /\ StartsWith(url, expected)
               /\ Len(url) > Len(expected) => url[Len(expected) + 1] = "?"

\* The part of C13 that holds: a placeholder that occurs once, and values
\* without a dollar sign, for the names the value mapping holds or that no
\* object inherits
C13_PlainValues ==
    (/\ Executed
     /\ fnArg.endpoint.path = UserPath
     /\ \A k \in DOMAIN fnArg.data : ~Includes(fnArg.data[k], "$")
     /\ \A i \in 1..Len(fnArg.endpoint.parameters) :
           fnArg.endpoint.parameters[i].name # KValueOf) =>
        /\ ~fnRes.v.request.threw
        /\ LET ep == fnArg.endpoint
               expected == DefaultBaseUrl
                           \o LiteralBind(ep.path, ep.parameters, fnArg.data)
               url == fnRes.v.request.url
           IN  /\ StartsWith(url, expected)
               /\ Len(url) > Len(expected) => url[Len(expected) + 1] = "?"

\* C17: for an endpoint that declares a request body and whose method key
\* is post, put or patch in any letter case, the request handed to fetch
\* has a body; for the method keys get and delete it has none.
C17_BodySent ==
    (Executed /\ ~fnRes.v.request.threw) =>
        LET endpoint == fnArg.endpoint
            verb == toLowerCase(endpoint.method)
        IN  /\ (verb \in BodyMethods /\ endpoint.requestBody.has) =>
                   fnRes.v.request.body.has
            /\ verb \in {<<"g", "e", "t">>, <<"d", "e", "l", "e", "t", "e">>} =>
                   ~fnRes.v.request.body.has

\* The same for the method keys written in lower case
C17_LowerCaseKeys ==
    (Executed /\ ~fnRes.v.request.threw
        /\ fnArg.endpoint.method = toLowerCase(fnArg.endpoint.method)) =>
        LET endpoint == fnArg.endpoint
        IN  /\ (endpoint.method \in BodyMethods /\ endpoint.requestBody.has) =>
                   fnRes.v.request.body.has
            /\ endpoint.method \in {<<"g", "e", "t">>, <<"d", "e", "l", "e", "t", "e">>} =>
                   ~fnRes.v.request.body.has

(***************************************************************************)
(* Schema flattening over generated schemas: extractFieldsFromSchema       *)
(* applied to a schema and the definitions of a document                   *)
(***************************************************************************)
MaxProps == 2

\* The properties objects of at most MaxProps keys, as written. The keys:
\* two that are no integer, two integer-like ones and one with a leading
\* zero
GenProperties ==
    LET names == {<<"b">>, <<"a">>, <<"2">>, <<"1", "0">>, <<"0", "1">>}
    IN  UNION {{ps \in [1..n -> [name : names, type : {None}, description : {None}]] :
                   \A i, j \in 1..n : i # j => ps[i].name # ps[j].name} :
               n \in 0..MaxProps}

GenSchemas ==
    {[ref |-> None, properties |-> ps, required |-> rq] :
        ps \in {None} \cup {Some(p) : p \in GenProperties},
        rq \in {None, Some(<<<<"a">>>>), Some(<<<<"2">>, <<"b">>>>)}}

FlattenInit ==
    /\ AppInit
    /\ fnArg \in {[fn |-> "flatten", schema |-> sch, definitions |-> defs] :
                     sch \in {None, Some(RefSchema(UserRef)), Some(RefSchema(GoneRef))}
                             \cup {Some(g) : g \in GenSchemas},
                     defs \in {None} \cup {Some((<<"U", "s", "e", "r">> :> g)) :
                                              g \in GenSchemas}}
    /\ fnRes = None

\* One call of extractFieldsFromSchema
Flatten ==
    /\ fnArg.fn = "flatten"
    /\ ~fnRes.has
    /\ fnRes' = Some(extractFieldsFromSchema(fnArg.schema, fnArg.definitions))
    /\ UNCHANGED <<appVars, fnArg>>

SpecFlatten == FlattenInit /\ [][Flatten]_vars

\* The schema the fields are read from: the target of the reference, the
\* schema itself when it has no reference, none when the target is missing
Resolved(schema, definitions) ==
    IF ~schema.has THEN None
    ELSE IF ~schema.v.ref.has THEN schema
    ELSE IF definitions.has /\ LastSegment(schema.v.ref.v) \in DOMAIN definitions.v
    THEN Some(definitions.v[LastSegment(schema.v.ref.v)])
    ELSE None

\* C18: flattening an absent schema, or a schema whose reference has no
\* target in the definitions (or there are no definitions), gives the empty
\* field list; otherwise it gives one field for each property key, in the
\* order the properties are declared, and a field is required iff its key
\* is in the required list.
C18_Flatten ==
    (fnArg.fn = "flatten" /\ fnRes.has) =>
        LET target == Resolved(fnArg.schema, fnArg.definitions)
            fields == fnRes.v
        IN  IF ~target.has THEN fields = << >>
            ELSE LET declared == OrElse(target.v.properties, << >>)
                     required == OrElse(target.v.required, << >>)
                 IN  /\ Len(fields) = Len(declared)
                     /\ \A i \in 1..Len(declared) :
                           /\ fields[i].name = declared[i].name
                           /\ fields[i].required <=> InSeq(declared[i].name, required)

\* The same without the order: the keys of the fields are the declared
\* keys, each once
C18_FieldSet ==
    (fnArg.fn = "flatten" /\ fnRes.has) =>
        LET target == Resolved(fnArg.schema, fnArg.definitions)
            fields == fnRes.v
        IN  IF ~target.has THEN fields = << >>
            ELSE LET declared == OrElse(target.v.properties, << >>)
                     required == OrElse(target.v.required, << >>)
                 IN  /\ Len(fields) = Len(declared)
                     /\ {fields[i].name : i \in 1..Len(fields)}
                            = {declared[i].name : i \in 1..Len(declared)}
                     /\ \A i \in 1..Len(fields) :
                           fields[i].required <=> InSeq(fields[i].name, required)

====
